---------------------------- MODULE Spec2Model ----------------------------
(***************************************************************************)
(* polygon2kattis: conversion of a Codeforces.Polygon package (a ZIP with  *)
(* problem.xml) into a Kattis problem directory.                           *)
(*                                                                         *)
(* The model keeps the parsed manifest, the archive, the output tree and   *)
(* the fields of the Polygon2Kattis object.  Every method of the class is  *)
(* one operator from the object's state to its state after the call, and   *)
(* one action that applies it.                                             *)
(*                                                                         *)
(* Representation.  A text is a sequence of tokens (strings).  A file's    *)
(* content is a sequence of lines, a line being [key, val] with val a      *)
(* text.  A file name is [stem, suffix], a path is [dir, name] with dir a  *)
(* sequence of directory names.  An optional value (an XML child or        *)
(* attribute that may be missing, Python's None) is the empty sequence or  *)
(* a one-element sequence.                                                 *)
(***************************************************************************)
EXTENDS Integers, Sequences, FiniteSets, TLC

VARIABLES
    manifest,          \* self.problem_data: the parsed problem.xml
    package,           \* self.package: member path -> content
    args,              \* the parsed command line / constructor arguments
    fs,                \* files of the output tree: path -> content
    dirs,              \* directories of the output tree
    checker_type,      \* self.checker_type; None while the attribute is unset
    check_type,        \* self.check_type, the attribute __init__ sets
    generator_names,   \* self.generator_names
    todo,              \* the method calls still to be made, in order
    pc,                \* "run", "done" (main returned) or "aborted" (exception)
    fs0                \* the output tree's files when the run started

vars == <<manifest, package, args, fs, dirs, checker_type, check_type,
          generator_names, todo, pc, fs0>>

----------------------------------------------------------------------------
(* Bounds of the model *)

MaxTests == 2

MaxSolutions == 2

----------------------------------------------------------------------------
(* Optional values, texts, names, paths *)

None == <<>>

Some(x) == <<x>>

IsNone(o) == Len(o) = 0

Get(o) == o[1]

Range(s) == {s[i] : i \in 1..Len(s)}

Line(k, v) == [key |-> k, val |-> v]

Name(stem, suffix) == [stem |-> stem, suffix |-> suffix]

PathOf(dir, name) == [dir |-> dir, name |-> name]

\* Path(p).name
BaseName(p) == p.name

\* the bytes of archive member m
Blob(m) == <<Line("blob", m.dir \o m.name.stem \o <<m.name.suffix>>)>>

\* `token in path` for a path string: substring test at token granularity
InPath(tok, p) == tok \in Range(p.dir) \cup Range(p.name.stem) \cup {p.name.suffix}

\* str(i) for a one-digit number
DecStr(i) == <<"0", "1", "2", "3", "4", "5", "6", "7", "8", "9">>[i + 1]

\* '%0<w>d' % i for a one-digit number: zero-padded to width w
Fmt(i, w) == [k \in 1..(IF w > 1 THEN w ELSE 1) |-> IF k < w THEN "0" ELSE DecStr(i)]

\* pattern % test_id, pattern = <dir>/%0<w>d<suffix>
Resolve(pat, i) == PathOf(pat.dir, Name(Fmt(i, pat.width), pat.suffix))

\* p.read_text()
RECURSIVE ReadText(_)
ReadText(c) == IF c = <<>> THEN <<>> ELSE Head(c).val \o ReadText(Tail(c))

IsSpace(t) == t \in {" ", "\n"}

\* str.strip()
RECURSIVE Strip(_)
Strip(t) ==
    IF t = <<>> THEN <<>>
    ELSE IF IsSpace(Head(t)) THEN Strip(Tail(t))
    ELSE IF IsSpace(t[Len(t)]) THEN Strip(SubSeq(t, 1, Len(t) - 1))
    ELSE t

----------------------------------------------------------------------------
(* The object's mutable state as a record, and the file helpers *)

Put(f, p, c) == [q \in DOMAIN f \cup {p} |-> IF q = p THEN c ELSE f[q]]

Remove(f, p) == [q \in DOMAIN f \ {p} |-> f[q]]

OutDir == <<>>

ProblemStatementPath == <<"problem_statement">>

DataPath == <<"data">>

SampleDataPath == <<"data", "sample">>

SecretDataPath == <<"data", "secret">>

Prefixes(d) == {SubSeq(d, 1, k) : k \in 0..Len(d)}

\* add_folder / force_mkdir(parents=True, exist_ok=True)
AddFolder(st, d) == [st EXCEPT !.dirs = @ \cup Prefixes(d)]

\* extract_package_member_to: KeyError when the archive has no such member
ExtractPackageMemberTo(pkg, st, member, dest) ==
    IF ~st.ok THEN st
    ELSE IF member \notin DOMAIN pkg THEN [st EXCEPT !.ok = FALSE]
    ELSE [st EXCEPT !.fs = Put(@, dest, pkg[member])]

----------------------------------------------------------------------------
(* process_tests / process_testset *)

TestFileName(test_id, suffix) == Name(<<DecStr(test_id)>>, suffix)

GenTestScript == Name(<<"_gen-test-script">>, "")

\* the body of `for test_id in range(1, testcount + 1)`, from test_id on;
\* acc = [st, scripts]
RECURSIVE TestLoop(_, _, _, _, _)
TestLoop(pkg, ts, secret, test_id, acc) ==
    IF ~acc.st.ok \/ test_id > Get(ts.testcount) THEN acc
    ELSE IF test_id > Len(ts.tests)
    THEN [acc EXCEPT !.st.ok = FALSE]          \* test_tags[test_id - 1]: IndexError
    ELSE
      LET test_tag == ts.tests[test_id]
          dest_path == IF test_tag.sample THEN SampleDataPath ELSE secret
          st1 == ExtractPackageMemberTo(pkg, acc.st, Resolve(Get(ts.inpat), test_id),
                                        PathOf(dest_path, TestFileName(test_id, "in")))
          st2 == ExtractPackageMemberTo(pkg, st1, Resolve(Get(ts.anspat), test_id),
                                        PathOf(dest_path, TestFileName(test_id, "ans")))
          st3 == IF st2.ok /\ ~IsNone(test_tag.cmd)
                 THEN [st2 EXCEPT !.generator_names = @ \cup {Head(Get(test_tag.cmd))}]
                 ELSE st2
          scripts == IF st2.ok /\ ~IsNone(test_tag.cmd)
                     THEN Append(acc.scripts,
                                 Line("script", Get(test_tag.cmd) \o <<">", DecStr(test_id), "in">>))
                     ELSE acc.scripts
      IN TestLoop(pkg, ts, secret, test_id + 1, [st |-> st3, scripts |-> scripts])

\* a variant that tests only the two pattern tags before reading the count
process_testset_count_unchecked(pkg, tgi, st, ts) ==
    LET secret == SecretDataPath \o <<ts.name>>
        st1 == AddFolder(st, secret)
    IN IF ~st.ok THEN st
       ELSE IF IsNone(ts.inpat) \/ IsNone(ts.anspat) THEN st1
       ELSE IF IsNone(ts.testcount) THEN [st1 EXCEPT !.ok = FALSE]
       ELSE LET r == TestLoop(pkg, ts, secret, 1, [st |-> st1, scripts |-> <<>>])
            IN IF r.st.ok /\ tgi
               THEN [r.st EXCEPT !.fs = Put(@, PathOf(secret, GenTestScript),
                                            <<Line("disclaimer", <<>>)>> \o r.scripts)]
               ELSE r.st

process_testset(pkg, tgi, st, ts) ==
    LET secret == SecretDataPath \o <<ts.name>>
        st1 == AddFolder(st, secret)
    IN IF ~st.ok THEN st
       ELSE IF IsNone(ts.inpat) \/ IsNone(ts.anspat) \/ IsNone(ts.testcount) THEN st1
       ELSE LET r == TestLoop(pkg, ts, secret, 1, [st |-> st1, scripts |-> <<>>])
            IN IF r.st.ok /\ tgi
               THEN [r.st EXCEPT !.fs = Put(@, PathOf(secret, GenTestScript),
                                            <<Line("disclaimer", <<>>)>> \o r.scripts)]
               ELSE r.st

RECURSIVE ForEachTestset(_, _, _, _)
ForEachTestset(pkg, tgi, st, testsets) ==
    IF testsets = <<>> THEN st
    ELSE ForEachTestset(pkg, tgi, process_testset(pkg, tgi, st, Head(testsets)), Tail(testsets))

files_to_exclude ==
    { PathOf(<<"files">>, Name(<<"olymp">>, "sty")),
      PathOf(<<"files">>, Name(<<"problem">>, "tex")),
      PathOf(<<"files">>, Name(<<"statements">>, "ftl")) }

RECURSIVE ExportResources(_, _, _)
ExportResources(pkg, st, files) ==
    IF files = <<>> THEN st
    ELSE LET file_path == Head(files)
             st1 == IF file_path \in files_to_exclude THEN st
                    ELSE ExtractPackageMemberTo(pkg, st, file_path,
                                                PathOf(SecretDataPath, BaseName(file_path)))
         IN ExportResources(pkg, st1, Tail(files))

RECURSIVE ExportExecutables(_, _, _)
ExportExecutables(pkg, st, files) ==
    IF files = <<>> THEN st
    ELSE LET file_path == Head(files)
             st1 == IF \E g \in st.generator_names : InPath(g, file_path)
                    THEN ExtractPackageMemberTo(pkg, st, file_path,
                                                PathOf(SecretDataPath, BaseName(file_path)))
                    ELSE st
         IN ExportExecutables(pkg, st1, Tail(files))

process_tests(mf, pkg, a, st) ==
    LET st1 == ForEachTestset(pkg, a.test_generation_info, st, mf.testsets)
    IN IF a.test_generation_info
       THEN ExportExecutables(pkg, ExportResources(pkg, st1, mf.resources), mf.executables)
       ELSE st1

----------------------------------------------------------------------------
(* process_statement *)

ENGLISH_LANG == [name |-> "english", short_name |-> "en"]

VIETNAMESE_LANG == [name |-> "vietnamese", short_name |-> "vn"]

SUPPORTED_LANGUAGES == {ENGLISH_LANG, VIETNAMESE_LANG}

\* name.startswith('statement-sections/<lang.name>')
IsStatementMember(m, lang) ==
    LET full == m.dir \o m.name.stem
    IN Len(full) >= 2 /\ full[1] = "statement-sections" /\ full[2] = lang.name

\* the loop `for filename in filename_list`: members without a suffix are skipped
RECURSIVE ExtractStatementFiles(_, _, _)
ExtractStatementFiles(pkg, st, filename_list) ==
    IF filename_list = {} \/ ~st.ok THEN st
    ELSE LET filename == CHOOSE m \in filename_list : TRUE
             dest_path == PathOf(ProblemStatementPath, BaseName(filename))
             st1 == IF dest_path.name.suffix = "" THEN st
                    ELSE ExtractPackageMemberTo(pkg, st, filename, dest_path)
         IN ExtractStatementFiles(pkg, st1, filename_list \ {filename})

\* the six fragments in the order the composite document takes them
Fragments == <<"name", "legend", "input", "output", "notes", "scoring">>

FragmentPath(frag) == PathOf(ProblemStatementPath, Name(<<frag>>, "tex"))

Heading(frag) ==
    CASE frag = "input" -> "Input"
      [] frag = "output" -> "Output"
      [] frag = "notes" -> "Sample Explanation"
      [] frag = "scoring" -> "Scoring"

\* what one fragment file with content c prints into the composite document
Contribution(frag, c) ==
    CASE frag = "name" -> <<Line("\\problemname", Strip(Strip(ReadText(c))))>>
      [] frag = "legend" -> <<Line("text", ReadText(c))>>
      [] OTHER -> <<Line("\\section*", <<Heading(frag)>>), Line("text", ReadText(c))>>

\* the six `p = ...; if p.is_file(): print(...); p.unlink()` blocks, from the
\* k-th on; acc = [files, out]
RECURSIVE FoldFragments(_, _)
FoldFragments(k, acc) ==
    IF k > Len(Fragments) THEN acc
    ELSE LET p == FragmentPath(Fragments[k])
         IN IF p \in DOMAIN acc.files
            THEN FoldFragments(k + 1, [files |-> Remove(acc.files, p),
                                       out |-> acc.out \o Contribution(Fragments[k], acc.files[p])])
            ELSE FoldFragments(k + 1, acc)

StatementFilePath(lang) == PathOf(ProblemStatementPath, Name(<<"problem", lang.short_name>>, "tex"))

\* a variant that clears the output directory before writing into it
process_statement_clean(pkg, a, st) ==
    LET filename_list == {m \in DOMAIN pkg : IsStatementMember(m, a.lang)}
        st0 == [st EXCEPT !.fs = [q \in {} |-> <<>>]]
        st1 == ExtractStatementFiles(pkg, st0, filename_list)
        folded == FoldFragments(1, [files |-> Put(st1.fs, StatementFilePath(a.lang), <<>>),
                                    out |-> <<>>])
    IN IF ~st.ok \/ filename_list = {} THEN st
       ELSE [st1 EXCEPT !.fs = Put(folded.files, StatementFilePath(a.lang), folded.out)]

process_statement(pkg, a, st) ==
    LET filename_list == {m \in DOMAIN pkg : IsStatementMember(m, a.lang)}
        st1 == ExtractStatementFiles(pkg, st, filename_list)
        folded == FoldFragments(1, [files |-> Put(st1.fs, StatementFilePath(a.lang), <<>>),
                                    out |-> <<>>])
    IN IF ~st.ok \/ filename_list = {} THEN st
       ELSE [st1 EXCEPT !.fs = Put(folded.files, StatementFilePath(a.lang), folded.out)]

----------------------------------------------------------------------------
(* process_solutions *)

SubmissionPath == <<"submissions">>

\* the if/elif chain on the tag; None when the solution is skipped
Bucket(tag) ==
    IF IsNone(tag) THEN None
    ELSE IF Get(tag) \in {"accepted", "main"} THEN Some("accepted")
    ELSE IF Get(tag) = "time-limit-exceeded" THEN Some("time_limit_exceeded")
    ELSE IF Get(tag) = "wrong-answer" THEN Some("wrong_answer")
    ELSE IF Get(tag) = "memory-limit-exceeded" THEN Some("run_time_error")
    ELSE None

\* source_tag.get('path', '')
EmptyPath == PathOf(<<>>, Name(<<>>, ""))

PathAttr(source_tag) == IF IsNone(source_tag.path) THEN EmptyPath ELSE Get(source_tag.path)

RECURSIVE process_solutions(_, _, _)
process_solutions(pkg, st, solution_tags) ==
    IF solution_tags = <<>> \/ ~st.ok THEN st
    ELSE LET solution_tag == Head(solution_tags)
             b == Bucket(solution_tag.tag)
             st1 == IF IsNone(solution_tag.source) \/ IsNone(b) THEN st
                    ELSE LET path == PathAttr(Get(solution_tag.source))
                             sol_out_dir == SubmissionPath \o <<Get(b)>>
                         IN ExtractPackageMemberTo(pkg, AddFolder(st, sol_out_dir), path,
                                                   PathOf(sol_out_dir, BaseName(path)))
         IN process_solutions(pkg, st1, Tail(solution_tags))

----------------------------------------------------------------------------
(* process_checker_validator_interactor *)

CheckerOutDir == <<"output_validators", "checker">>

ValidatorOutDir == <<"input_validators", "extracted_validator">>

TestlibName == Name(<<"testlib">>, "h")

RECURSIVE Ups(_)
Ups(n) == IF n = 0 THEN <<>> ELSE <<"..">> \o Ups(n - 1)

\* _put_testlib_to: a copy of the bundled header, or a relative symbolic link
put_testlib_to(a, st, path) ==
    IF ~st.ok THEN st
    ELSE IF a.symlink_testlib = <<>>
    THEN [st EXCEPT !.fs = Put(@, PathOf(path, TestlibName), <<Line("testlib", <<>>)>>)]
    ELSE [st EXCEPT !.fs = Put(@, PathOf(path, TestlibName),
                               <<Line("symlink", Ups(Len(path) + 1) \o a.symlink_testlib)>>)]

\* the part of _process_checker / _process_validator after the source tag is found
CopySource(pkg, a, st, source_tag, out_dir) ==
    LET source_path == PathAttr(source_tag)
        st1 == ExtractPackageMemberTo(pkg, AddFolder(st, out_dir), source_path,
                                      PathOf(out_dir, BaseName(source_path)))
    IN IF "cpp" \in Range(source_tag.type) THEN put_testlib_to(a, st1, out_dir) ELSE st1

process_checker(mf, pkg, a, st) ==
    IF ~st.ok \/ IsNone(mf.checker) THEN st
    ELSE LET checker_tag == Get(mf.checker)
         IN IF ~IsNone(checker_tag.name)
            THEN [st EXCEPT !.checker_type = Some(Get(checker_tag.name))]
            ELSE LET st1 == [st EXCEPT !.checker_type = Some(<<"custom">>)]
                 IN IF IsNone(checker_tag.source) THEN st1
                    ELSE CopySource(pkg, a, st1, Get(checker_tag.source), CheckerOutDir)

process_validator(mf, pkg, a, st) ==
    IF ~st.ok \/ IsNone(mf.validator) THEN st
    ELSE LET validator_tag == Get(mf.validator)
         IN IF IsNone(validator_tag.source) THEN st
            ELSE CopySource(pkg, a, st, Get(validator_tag.source), ValidatorOutDir)

process_checker_validator_interactor(mf, pkg, a, st) ==
    process_validator(mf, pkg, a, process_checker(mf, pkg, a, st))

----------------------------------------------------------------------------
(* write_problem_yaml *)

ProblemYaml == PathOf(OutDir, Name(<<"problem">>, "yaml"))

\* the lines printed before self.checker_type is read
YamlHead(mf, a) ==
    << Line("source:", mf.url), Line("license:", a.license),
       Line("limits:", <<>>), Line("  time_multiplier: 2", <<>>) >>

\* the lines printed for checker type ct
YamlValidation(ct) ==
    IF "custom" \in Range(ct) THEN <<Line("validation:", ct)>>
    ELSE IF "std::" \in Range(ct)
    THEN (IF ct = <<"std::", "rcmp4.cpp">>
          THEN <<Line("validation:", <<>>), Line("  validator_flags: float_tolerance 1e-4", <<>>)>>
          ELSE <<>>)
         \o (IF ct = <<"std::", "rcmp6.cpp">>
          THEN <<Line("validation:", <<>>), Line("  validator_flags: float_tolerance 1e-6", <<>>)>>
          ELSE <<>>)
         \o (IF ct = <<"std::", "rcmp9.cpp">>
          THEN <<Line("validation:", <<>>), Line("  validator_flags: float_tolerance 1e-9", <<>>)>>
          ELSE <<>>)
    ELSE <<>>

\* open(..., 'w') truncates; reading an attribute that was never set raises
\* AttributeError after the head lines are printed, and the file is closed
write_problem_yaml(mf, a, st) ==
    IF ~st.ok THEN st
    ELSE IF IsNone(st.checker_type)
    THEN [st EXCEPT !.fs = Put(@, ProblemYaml, YamlHead(mf, a)), !.ok = FALSE]
    ELSE [st EXCEPT !.fs = Put(@, ProblemYaml,
                               YamlHead(mf, a) \o YamlValidation(Get(st.checker_type)))]

----------------------------------------------------------------------------
(* main and the calls it makes *)

PARTS == {"statement", "tests", "solutions", "checker_validator_interactor", "problem_yaml"}

\* the order of the five `if has_part(...)` lines of main
MainOrder == <<"statement", "tests", "solutions", "checker_validator_interactor", "problem_yaml">>

IsPartIn(S) == [p \in PARTS |-> p \in S]

MainCalls(part) == LET sel == IsPartIn(part) IN SelectSeq(MainOrder, LAMBDA p : sel[p])

\* one method call on the object
Call(phase, mf, pkg, a, st) ==
    CASE phase = "statement" -> process_statement(pkg, a, st)
      [] phase = "tests" -> process_tests(mf, pkg, a, st)
      [] phase = "solutions" -> process_solutions(pkg, st, mf.solutions)
      [] phase = "checker_validator_interactor" -> process_checker_validator_interactor(mf, pkg, a, st)
      [] phase = "problem_yaml" -> write_problem_yaml(mf, a, st)

\* the calls of a sequence one after the other, stopping at the first exception
RECURSIVE RunCalls(_, _, _, _, _)
RunCalls(calls, mf, pkg, a, st) ==
    IF calls = <<>> \/ ~st.ok THEN st
    ELSE RunCalls(Tail(calls), mf, pkg, a, Call(Head(calls), mf, pkg, a, st))

\* Polygon2Kattis.__init__: the four directories, no generator names, and
\* check_type (not checker_type) set to the empty string
InitDirs == Prefixes(ProblemStatementPath) \cup Prefixes(SampleDataPath) \cup Prefixes(SecretDataPath)

StateAfterInit(files) ==
    [fs |-> files, dirs |-> InitDirs, checker_type |-> None, generator_names |-> {}, ok |-> TRUE]

Cur == [fs |-> fs, dirs |-> dirs, checker_type |-> checker_type,
        generator_names |-> generator_names, ok |-> TRUE]

\* the next call of the run is `phase`
IsNext(phase) == pc = "run" /\ todo # <<>> /\ Head(todo) = phase

\* the object and the output tree after a call that left them as st
Returns(st) ==
    /\ fs' = st.fs
    /\ dirs' = st.dirs
    /\ checker_type' = st.checker_type
    /\ generator_names' = st.generator_names
    /\ pc' = IF st.ok THEN "run" ELSE "aborted"
    /\ todo' = Tail(todo)
    /\ UNCHANGED <<manifest, package, args, check_type, fs0>>

ProcessStatement ==
    /\ IsNext("statement")
    /\ Returns(process_statement(package, args, Cur))

ProcessTests ==
    /\ IsNext("tests")
    /\ Returns(process_tests(manifest, package, args, Cur))

ProcessSolutions ==
    /\ IsNext("solutions")
    /\ Returns(process_solutions(package, Cur, manifest.solutions))

ProcessCheckerValidatorInteractor ==
    /\ IsNext("checker_validator_interactor")
    /\ Returns(process_checker_validator_interactor(manifest, package, args, Cur))

WriteProblemYaml ==
    /\ IsNext("problem_yaml")
    /\ Returns(write_problem_yaml(manifest, args, Cur))

\* p2k.log('done'): main returns, exit status zero
Finish ==
    /\ pc = "run"
    /\ todo = <<>>
    /\ pc' = "done"
    /\ UNCHANGED <<manifest, package, args, fs, dirs, checker_type, check_type,
                   generator_names, todo, fs0>>

----------------------------------------------------------------------------
(* Manifests, archives and command lines the runs start from *)

NoFiles == [q \in {} |-> <<>>]

\* Polygon's patterns: <testset>/%02d and <testset>/%02d.a
InPat(name) == [dir |-> <<name>>, width |-> 2, suffix |-> ""]

AnsPat(name) == [dir |-> <<name>>, width |-> 2, suffix |-> "a"]

TestOptions(cmd) == {[sample |-> s, cmd |-> cmd] : s \in BOOLEAN}

TestSeqs(cmd) == UNION {[1..n -> TestOptions(cmd)] : n \in 0..MaxTests}

GenCmd == <<"gen", "1">>

\* testsets with the three required elements
CompleteTestsets(name) ==
    {[name |-> name, inpat |-> Some(InPat(name)), anspat |-> Some(AnsPat(name)),
      testcount |-> Some(n), tests |-> t] :
        n \in 0..MaxTests, t \in TestSeqs(None) \cup TestSeqs(Some(GenCmd))}

\* testsets that lack one of them
MalformedTestsets(name) ==
    LET t == <<[sample |-> FALSE, cmd |-> Some(GenCmd)]>>
    IN { [name |-> name, inpat |-> None, anspat |-> Some(AnsPat(name)), testcount |-> Some(1), tests |-> t],
         [name |-> name, inpat |-> Some(InPat(name)), anspat |-> None, testcount |-> Some(1), tests |-> t],
         [name |-> name, inpat |-> Some(InPat(name)), anspat |-> Some(AnsPat(name)), testcount |-> None, tests |-> t] }

TestsetOptions(name) == CompleteTestsets(name) \cup MalformedTestsets(name)

OneTestset(n) ==
    [name |-> "tests", inpat |-> Some(InPat("tests")), anspat |-> Some(AnsPat("tests")),
     testcount |-> Some(n), tests |-> <<[sample |-> FALSE, cmd |-> None]>>]

TestMembers(name) ==
    {Resolve(InPat(name), i) : i \in 1..(MaxTests + 1)} \cup {Resolve(AnsPat(name), i) : i \in 1..(MaxTests + 1)}

Resources == << PathOf(<<"files">>, Name(<<"olymp">>, "sty")), PathOf(<<"files">>, Name(<<"testlib">>, "h")) >>

Executables == << PathOf(<<"files">>, Name(<<"gen">>, "cpp")), PathOf(<<"files">>, Name(<<"val">>, "cpp")) >>

SolutionPaths ==
    { PathOf(<<"solutions">>, Name(<<"sol">>, "cpp")),
      PathOf(<<"solutions">>, Name(<<"slow">>, "cpp")),
      PathOf(<<"solutions", "old">>, Name(<<"sol">>, "cpp")) }

SolutionTags == {"accepted", "main", "time-limit-exceeded", "wrong-answer",
                 "memory-limit-exceeded", "rejected"}

SourceOptions(paths) ==
    {None, Some([path |-> None, type |-> <<"cpp", ".g++17">>])}
    \cup {Some([path |-> Some(p), type |-> <<"cpp", ".g++17">>]) : p \in paths}

SolutionOptions ==
    {[tag |-> t, source |-> s] : t \in {None} \cup {Some(x) : x \in SolutionTags},
                                 s \in SourceOptions(SolutionPaths)}

HasPath(tag) == ~IsNone(tag.source) /\ ~IsNone(Get(tag.source).path)

\* a manifest lists a solution file once
DistinctSources(sols) ==
    \A i, j \in 1..Len(sols) :
        (i # j /\ HasPath(sols[i]) /\ HasPath(sols[j])) => Get(sols[i].source).path # Get(sols[j].source).path

OneSolution == <<[tag |-> Some("main"), source |-> Some([path |-> Some(PathOf(<<"solutions">>, Name(<<"sol">>, "cpp"))),
                                                         type |-> <<"cpp", ".g++17">>])]>>

CheckerSource == PathOf(<<"files">>, Name(<<"check">>, "cpp"))

ValidatorSource == PathOf(<<"files">>, Name(<<"val">>, "cpp"))

CheckerNames ==
    { <<"std::", "rcmp4.cpp">>, <<"std::", "rcmp6.cpp">>, <<"std::", "rcmp9.cpp">>,
      <<"std::", "ncmp.cpp">>, <<"std::", "wcmp.cpp">>,
      <<"std::", "custom", "_cmp.cpp">>, <<"custom">> }

CppSource(p) == Some([path |-> Some(p), type |-> <<"cpp", ".g++17">>])

PySource(p) == Some([path |-> Some(p), type |-> <<"python", ".3">>])

CheckerOptions ==
    {None}
    \cup {Some([name |-> Some(n), source |-> CppSource(CheckerSource)]) : n \in CheckerNames}
    \cup {Some([name |-> None, source |-> s]) :
            s \in {None, CppSource(CheckerSource), PySource(CheckerSource),
                   Some([path |-> None, type |-> <<"cpp", ".g++17">>])}}

ValidatorOptions ==
    {None, Some([source |-> None]), Some([source |-> CppSource(ValidatorSource)])}

StatementMember(lang, stem, suffix) == PathOf(<<"statement-sections", lang.name>>, Name(stem, suffix))

FragmentMember(lang, frag) == StatementMember(lang, <<frag>>, "tex")

\* the directory entry and the files other than fragments
OtherStatementMembers(lang) ==
    { PathOf(<<"statement-sections">>, Name(<<lang.name>>, "")),
      StatementMember(lang, <<"example">>, "01"),
      StatementMember(lang, <<"tutorial">>, "tex") }

NameTexts == {<<"A", " ", "B">>, <<" ", "A", " ", "B", "\n">>}

\* an archive: every member has its own bytes; name.tex holds the given text
Archive(members, nameText) ==
    [m \in members |-> IF m.name = Name(<<"name">>, "tex") THEN <<Line("blob", nameText)>> ELSE Blob(m)]

CommonMembers ==
    TestMembers("tests") \cup TestMembers("pretests") \cup Range(Resources) \cup Range(Executables)
    \cup SolutionPaths \cup {CheckerSource, ValidatorSource}

DefaultStatement == {FragmentMember(ENGLISH_LANG, "name"), FragmentMember(ENGLISH_LANG, "legend")}
                    \cup OtherStatementMembers(ENGLISH_LANG)

Manifest(testsets, solutions, checker, validator) ==
    [url |-> <<"https://polygon.codeforces.com/p/x">>, testsets |-> testsets, solutions |-> solutions,
     checker |-> checker, validator |-> validator, resources |-> Resources, executables |-> Executables]

Args(lang, tgi, symlink, wpy, part, calls) ==
    [lang |-> lang, license |-> <<"cc by-sa">>, test_generation_info |-> tgi,
     symlink_testlib |-> symlink, write_problem_yaml |-> wpy, part |-> part, calls |-> calls]

HandEdited == <<Line("source:", <<"edited by hand">>)>>

\* the object after construction, about to make the calls of args.calls
Start(mf, pkg, a, files) ==
    /\ manifest = mf
    /\ package = pkg
    /\ args = a
    /\ fs = files
    /\ fs0 = files
    /\ dirs = InitDirs
    /\ checker_type = None
    /\ check_type = <<>>
    /\ generator_names = {}
    /\ todo = a.calls
    /\ pc = "run"

----------------------------------------------------------------------------
(* Spec: a run of main, for every choice of --part and of the flags *)

Init ==
    \E ck \in CheckerOptions, vd \in ValidatorOptions, part \in SUBSET PARTS,
       tgi \in BOOLEAN, wpy \in BOOLEAN, symlink \in {<<>>, <<"testlib.h">>},
       files \in {NoFiles, Put(NoFiles, ProblemYaml, HandEdited)} :
        Start(Manifest(<<OneTestset(1)>>, OneSolution, ck, vd),
              Archive(CommonMembers \cup DefaultStatement, <<"A">>),
              Args(ENGLISH_LANG, tgi, symlink, wpy, part, MainCalls(part)),
              files)

Next ==
    \/ ProcessStatement
    \/ ProcessTests
    \/ ProcessSolutions
    \/ ProcessCheckerValidatorInteractor
    \/ WriteProblemYaml
    \/ Finish

Spec == Init /\ [][Next]_vars

----------------------------------------------------------------------------
(* SpecAnyOrder: the five methods called once each, in any order *)

Permutations5 == {s \in [1..5 -> PARTS] : \A i, j \in 1..5 : i # j => s[i] # s[j]}

InitAnyOrder ==
    \E ck \in CheckerOptions, vd \in ValidatorOptions, n \in 1..2, calls \in Permutations5 :
        Start(Manifest(<<OneTestset(n)>>, OneSolution, ck, vd),
              Archive(CommonMembers \cup DefaultStatement, <<"A">>),
              Args(ENGLISH_LANG, FALSE, <<>>, FALSE, PARTS, calls),
              NoFiles)

SpecAnyOrder == InitAnyOrder /\ [][Next]_vars

----------------------------------------------------------------------------
(* SpecTests: process_tests on manifests of two testsets *)

InitTests ==
    \E t1 \in TestsetOptions("tests"), t2 \in TestsetOptions("pretests"), tgi \in BOOLEAN :
        Start(Manifest(<<t1, t2>>, <<>>, None, None),
              Archive(CommonMembers, <<"A">>),
              Args(ENGLISH_LANG, tgi, <<>>, FALSE, {"tests"}, <<"tests">>),
              NoFiles)

NextTests == ProcessTests \/ Finish

SpecTests == InitTests /\ [][NextTests]_vars

----------------------------------------------------------------------------
(* SpecSolutions: process_solutions *)

InitSolutions ==
    \E n \in 1..MaxSolutions :
      \E sols \in [1..n -> SolutionOptions] :
        /\ DistinctSources(sols)
        /\ Start(Manifest(<<>>, sols, None, None),
                 Archive(CommonMembers, <<"A">>),
                 Args(ENGLISH_LANG, FALSE, <<>>, FALSE, {"solutions"}, <<"solutions">>),
                 NoFiles)

NextSolutions == ProcessSolutions \/ Finish

SpecSolutions == InitSolutions /\ [][NextSolutions]_vars

----------------------------------------------------------------------------
(* SpecStatement: process_statement twice in a row *)

MaxStale == 2

StaleFile(frag) == <<Line("stale", <<frag>>)>>

StaleFiles(S) == [p \in {FragmentPath(f) : f \in S} |-> StaleFile(p.name.stem[1])]

InitStatement ==
    \E lang \in SUPPORTED_LANGUAGES, present \in SUBSET Range(Fragments), others \in BOOLEAN,
       vn \in BOOLEAN, text \in NameTexts, stale \in SUBSET Range(Fragments) :
        /\ Cardinality(stale) <= MaxStale
        /\ Start(Manifest(<<>>, <<>>, None, None),
                 Archive({FragmentMember(ENGLISH_LANG, f) : f \in present}
                         \cup (IF others THEN OtherStatementMembers(ENGLISH_LANG) ELSE {})
                         \cup (IF vn THEN {FragmentMember(VIETNAMESE_LANG, "name"),
                                           FragmentMember(VIETNAMESE_LANG, "legend")} ELSE {}),
                         text),
                 Args(lang, FALSE, <<>>, FALSE, {"statement"}, <<"statement", "statement">>),
                 StaleFiles(stale))

NextStatement == ProcessStatement \/ Finish

SpecStatement == InitStatement /\ [][NextStatement]_vars

----------------------------------------------------------------------------
(* Claims about process_tests (SpecTests) *)

Ended == pc = "done" \/ pc = "aborted"

IsComplete(ts) == ~IsNone(ts.inpat) /\ ~IsNone(ts.anspat) /\ ~IsNone(ts.testcount)

Testsets == {manifest.testsets[k] : k \in 1..Len(manifest.testsets)}

SecretDirOf(ts) == SecretDataPath \o <<ts.name>>

DestOf(ts, i) == IF ts.tests[i].sample THEN SampleDataPath ELSE SecretDirOf(ts)

OtherOf(ts, i) == IF ts.tests[i].sample THEN SecretDirOf(ts) ELSE SampleDataPath

Holds(p, c) == p \in DOMAIN fs /\ fs[p] = c

\* the files of the output tree that carry an input (an answer) of testset ts
InputFilesOf(ts) ==
    {p \in DOMAIN fs : p.name.suffix = "in" /\ \E i \in 1..(MaxTests + 1) : fs[p] = Blob(Resolve(Get(ts.inpat), i))}

AnswerFilesOf(ts) ==
    {p \in DOMAIN fs : p.name.suffix = "ans" /\ \E i \in 1..(MaxTests + 1) : fs[p] = Blob(Resolve(Get(ts.anspat), i))}

\* C1: after process_tests completes, every testset that has its two patterns
\* and its test count has exactly testcount input files and testcount answer
\* files in the output tree, <ordinal>.in and <ordinal>.ans for ordinal in
\* 1..testcount, each in exactly one of data/sample (sample flag set) and
\* data/secret/<testset> (otherwise); also when several testsets have sample
\* tests with the same ordinal.
C1_ExactlyTestcountFilesPerTestset ==
    (pc = "done") =>
        \A ts \in Testsets :
            IsComplete(ts) =>
                /\ \A i \in 1..Get(ts.testcount) :
                     /\ Holds(PathOf(DestOf(ts, i), TestFileName(i, "in")), Blob(Resolve(Get(ts.inpat), i)))
                     /\ Holds(PathOf(DestOf(ts, i), TestFileName(i, "ans")), Blob(Resolve(Get(ts.anspat), i)))
                     /\ ~Holds(PathOf(OtherOf(ts, i), TestFileName(i, "in")), Blob(Resolve(Get(ts.inpat), i)))
                     /\ ~Holds(PathOf(OtherOf(ts, i), TestFileName(i, "ans")), Blob(Resolve(Get(ts.anspat), i)))
                /\ Cardinality(InputFilesOf(ts)) = Get(ts.testcount)
                /\ Cardinality(AnswerFilesOf(ts)) = Get(ts.testcount)

\* the testsets that are processed, and process_tests on them alone
ValidTestsets == SelectSeq(manifest.testsets, IsComplete)

WithoutMalformed ==
    process_tests([manifest EXCEPT !.testsets = ValidTestsets], package, args, StateAfterInit(fs0))

\* C6: a testset that lacks its input-path-pattern, answer-path-pattern or
\* test-count element is skipped without aborting.  With such a testset in the
\* manifest, process_tests ends as it does on the other testsets alone: it
\* completes when every other testset has a test record for each of its
\* ordinals, every such testset then has its <ordinal>.in and <ordinal>.ans
\* files, the files of the output tree are those the other testsets alone give,
\* and the malformed testset's directory holds no file, no _gen-test-script
\* marker either.
C6_MalformedTestsetSkipped ==
    (Ended /\ \E ts \in Testsets : ~IsComplete(ts)) =>
        /\ (pc = "done") = WithoutMalformed.ok
        /\ (\A ts \in Testsets : IsComplete(ts) => Get(ts.testcount) <= Len(ts.tests)) => pc = "done"
        /\ fs = WithoutMalformed.fs
        /\ \A ts \in Testsets :
             IF IsComplete(ts)
             THEN (pc = "done") =>
                    \A i \in 1..Get(ts.testcount) :
                        /\ PathOf(DestOf(ts, i), TestFileName(i, "in")) \in DOMAIN fs
                        /\ PathOf(DestOf(ts, i), TestFileName(i, "ans")) \in DOMAIN fs
             ELSE \A p \in DOMAIN fs : p.dir # SecretDirOf(ts)

\* a malformed testset before a valid one, with test-generation-info enabled
C6_Witness ==
    /\ pc = "done"
    /\ args.test_generation_info
    /\ IsNone(manifest.testsets[1].testcount)
    /\ IsComplete(manifest.testsets[2])
    /\ Get(manifest.testsets[2].testcount) = 2
    /\ PathOf(SecretDirOf(manifest.testsets[2]), GenTestScript) \in DOMAIN fs

\* Side check: C1 fails only on manifests in which two testsets have a sample
\* test with the same ordinal.
NoSharedSampleOrdinal ==
    \A t1, t2 \in Testsets :
        (t1 # t2 /\ IsComplete(t1) /\ IsComplete(t2)) =>
            \A i \in 1..MaxTests :
                ~(/\ i <= Get(t1.testcount) /\ i <= Get(t2.testcount)
                  /\ i <= Len(t1.tests) /\ i <= Len(t2.tests)
                  /\ t1.tests[i].sample /\ t2.tests[i].sample)

C1_HoldsWithoutSharedOrdinals == NoSharedSampleOrdinal => C1_ExactlyTestcountFilesPerTestset

----------------------------------------------------------------------------
(* Claims about process_solutions (SpecSolutions) *)

Buckets == {"accepted", "time_limit_exceeded", "wrong_answer", "run_time_error"}

\* what the claim gives for each tag
ClaimedBucket(tag) ==
    CASE tag = Some("accepted") -> Some("accepted")
      [] tag = Some("main") -> Some("accepted")
      [] tag = Some("time-limit-exceeded") -> Some("time_limit_exceeded")
      [] tag = Some("wrong-answer") -> Some("wrong_answer")
      [] tag = Some("memory-limit-exceeded") -> Some("run_time_error")
      [] OTHER -> None

Solutions == {manifest.solutions[k] : k \in 1..Len(manifest.solutions)}

InBucket(sol, b) ==
    LET path == Get(Get(sol.source).path)
    IN Holds(PathOf(SubmissionPath \o <<b>>, BaseName(path)), Blob(path))

\* C7: bucketing is a total function of the tag (accepted and main to
\* accepted, time-limit-exceeded to time_limit_exceeded, wrong-answer to
\* wrong_answer, memory-limit-exceeded to run_time_error); any other tag or a
\* solution without a source is skipped without error; after the phase every
\* solution with a recognized tag and a source path is there as its own file
\* in exactly one bucket directory, and no solution is in two buckets.
C7_EverySolutionInItsBucket ==
    (todo = <<>>) =>
        /\ pc # "aborted"
        /\ \A sol \in Solutions :
             HasPath(sol) =>
                \A b \in Buckets : InBucket(sol, b) <=> (ClaimedBucket(sol.tag) = Some(b))

\* Side check: C7 fails only on manifests with a source element that has no
\* path, or with two solutions of the same file name.
SolutionsWellFormed ==
    /\ \A sol \in Solutions : ~IsNone(sol.source) => HasPath(sol)
    /\ \A s1, s2 \in Solutions :
         (s1 # s2 /\ HasPath(s1) /\ HasPath(s2)) =>
            BaseName(Get(Get(s1.source).path)) # BaseName(Get(Get(s2.source).path))

C7_HoldsWhenWellFormed == SolutionsWellFormed => C7_EverySolutionInItsBucket

----------------------------------------------------------------------------
(* Claims about process_statement (SpecStatement) *)

RunsMade == Len(args.calls) - Len(todo)

NoFragmentLeft == \A k \in 1..Len(Fragments) : FragmentPath(Fragments[k]) \notin DOMAIN fs

\* the output tree after the first run, from the tree the run started on
AfterFirstRun == process_statement(package, args, StateAfterInit(fs0)).fs

SameFileIn(f, g, p) ==
    /\ (p \in DOMAIN f) = (p \in DOMAIN g)
    /\ (p \in DOMAIN f) => f[p] = g[p]

\* C8: process_statement run twice in a row on the same archive, language and
\* output directory is idempotent: problem.<short code>.tex after the second
\* run is that after the first, and after each run none of the six fragment
\* files is left in the statement output directory.
C8_StatementIdempotent ==
    /\ (RunsMade >= 1) => NoFragmentLeft
    /\ (RunsMade = 2) => SameFileIn(fs, AfterFirstRun, StatementFilePath(args.lang))

\* the members of the selected language, and the fragments among them
ExtractedMembers == {m \in DOMAIN package : IsStatementMember(m, args.lang)}

IsExtracted(frag) ==
    \E m \in ExtractedMembers : m.name = Name(<<frag>>, "tex")

TextOf(frag) ==
    ReadText(package[CHOOSE m \in ExtractedMembers : m.name = Name(<<frag>>, "tex")])

\* what the claim gives for one fragment
ClaimedContribution(frag) ==
    IF ~IsExtracted(frag) THEN <<>>
    ELSE CASE frag = "name" -> <<Line("\\problemname", Strip(TextOf(frag)))>>
           [] frag = "legend" -> <<Line("text", TextOf(frag))>>
           [] frag = "input" -> <<Line("\\section*", <<"Input">>), Line("text", TextOf(frag))>>
           [] frag = "output" -> <<Line("\\section*", <<"Output">>), Line("text", TextOf(frag))>>
           [] frag = "notes" -> <<Line("\\section*", <<"Sample Explanation">>), Line("text", TextOf(frag))>>
           [] frag = "scoring" -> <<Line("\\section*", <<"Scoring">>), Line("text", TextOf(frag))>>

ClaimedDocument ==
    ClaimedContribution("name") \o ClaimedContribution("legend") \o ClaimedContribution("input")
    \o ClaimedContribution("output") \o ClaimedContribution("notes") \o ClaimedContribution("scoring")

\* C9: when the archive has a member for the selected language, the composite
\* document is made of the contributions of exactly those of the six fragments
\* that are among the members extracted in this run, in the fixed order; a
\* fragment that is not extracted contributes nothing, whatever files the
\* statement output directory held before the run.
C9_DocumentFromExtractedFragments ==
    (RunsMade >= 1 /\ ExtractedMembers # {}) =>
        Holds(StatementFilePath(args.lang), ClaimedDocument)

\* Side checks: C8 and C9 fail only when the statement output directory holds
\* a fragment file before the first run.
C8_HoldsOnCleanDirectory == (fs0 = NoFiles) => C8_StatementIdempotent

C9_HoldsOnCleanDirectory == (fs0 = NoFiles) => C9_DocumentFromExtractedFragments

----------------------------------------------------------------------------
(* Claims about a run of main (Spec) *)

\* position of a call in the run's sequence of calls, 0 when it is not made
Pos(phase) ==
    IF \E i \in 1..Len(args.calls) : args.calls[i] = phase
    THEN CHOOSE i \in 1..Len(args.calls) : args.calls[i] = phase
    ELSE 0

ClassifiesThenWrites ==
    /\ Pos("checker_validator_interactor") > 0
    /\ Pos("checker_validator_interactor") < Pos("problem_yaml")

\* C2: problem.yaml is written only on request: in a run with the default
\* configuration (no --write-problem-yaml, no --part) a problem.yaml that is
\* already at the output root is left unchanged by the whole run.
C2_DefaultRunKeepsProblemYaml ==
    (/\ ~args.write_problem_yaml
     /\ args.part = PARTS
     /\ ProblemYaml \in DOMAIN fs0) =>
        SameFileIn(fs, fs0, ProblemYaml)

\* C3: a manifest without a checker element is a recoverable condition: a run
\* that makes the checker/validator call and then the metadata call never
\* aborts; it reaches the end of main, and the metadata file then carries the
\* source, license and time-multiplier lines and no validation line.
C3_AbsentCheckerNeverAborts ==
    (IsNone(manifest.checker) /\ ClassifiesThenWrites) =>
        /\ pc # "aborted"
        /\ (pc = "done") => Holds(ProblemYaml, YamlHead(manifest, args))

\* what the claim gives for a checker name
ClaimedValidation(n) ==
    CASE n = <<"std::", "rcmp4.cpp">> ->
            <<Line("validation:", <<>>), Line("  validator_flags: float_tolerance 1e-4", <<>>)>>
      [] n = <<"std::", "rcmp6.cpp">> ->
            <<Line("validation:", <<>>), Line("  validator_flags: float_tolerance 1e-6", <<>>)>>
      [] n = <<"std::", "rcmp9.cpp">> ->
            <<Line("validation:", <<>>), Line("  validator_flags: float_tolerance 1e-9", <<>>)>>
      [] OTHER -> IF "custom" \in Range(n) THEN <<Line("validation:", <<"custom">>)>> ELSE <<>>

\* C4: the metadata is a function of the checker name that classification
\* records: std::rcmp4.cpp gives the validator-flags line with tolerance 1e-4,
\* rcmp6.cpp 1e-6, rcmp9.cpp 1e-9; every name that contains `custom` gives
\* exactly the bare line `validation: custom`; every other standard name gives
\* no validation line.
C4_ValidationByCheckerName ==
    (/\ pc = "done"
     /\ ClassifiesThenWrites
     /\ ~IsNone(manifest.checker)
     /\ ~IsNone(Get(manifest.checker).name)) =>
        Holds(ProblemYaml, YamlHead(manifest, args) \o ClaimedValidation(Get(Get(manifest.checker).name)))

\* Side check: C4 fails only for a name that contains `custom` and more.
C4_HoldsForOtherNames ==
    (~IsNone(manifest.checker) /\ ~IsNone(Get(manifest.checker).name)
     /\ "custom" \in Range(Get(Get(manifest.checker).name))
     /\ Get(Get(manifest.checker).name) # <<"custom">>)
    \/ C4_ValidationByCheckerName

HasLine(c, l) == \E i \in 1..Len(c) : c[i] = l

\* C10: in a run that classifies the checker and then writes the metadata, a
\* `validation: custom` line in the metadata file means that a custom checker
\* source file has been copied into output_validators/checker/.
C10_CustomValidationHasChecker ==
    (/\ pc = "done"
     /\ ClassifiesThenWrites
     /\ ProblemYaml \in DOMAIN fs
     /\ HasLine(fs[ProblemYaml], Line("validation:", <<"custom">>))) =>
        \E p \in DOMAIN fs : p.dir = CheckerOutDir /\ p.name # TestlibName

----------------------------------------------------------------------------
(* Claims about the order of the calls (SpecAnyOrder) *)

\* the run of the same calls in main's order, from the same start
InMainOrder == RunCalls(MainOrder, manifest, package, args, StateAfterInit(fs0))

\* C5: there is no ordering dependency between the phases: for every manifest
\* on which they complete in main's order and every order of the five calls,
\* every phase completes and the final output tree, with the metadata file,
\* is the same.
C5_AnyOrderSameTree ==
    (Ended /\ InMainOrder.ok) =>
        /\ pc = "done"
        /\ fs = InMainOrder.fs

\* C5 as amended: write_problem_yaml depends on the checker/validator phase,
\* whose recorded checker type it reads.  In every order of the five calls
\* that makes the metadata call after the checker/validator call, the run
\* completes exactly when it completes in main's order, and then the final
\* output tree, with the metadata file, is the same as in main's order.
C5_SameTreeWhenYamlAfterChecker ==
    (Ended /\ ClassifiesThenWrites) =>
        /\ (pc = "done") = InMainOrder.ok
        /\ (pc = "done") => (fs = InMainOrder.fs /\ dirs = InMainOrder.dirs)

\* a completed run, not in main's order, that wrote the checker's tolerance
C5_Witness ==
    /\ pc = "done"
    /\ args.calls[1] = "checker_validator_interactor"
    /\ args.calls[2] = "problem_yaml"
    /\ args.calls[5] = "statement"
    /\ Len(fs[ProblemYaml]) > Len(YamlHead(manifest, args))
    /\ StatementFilePath(args.lang) \in DOMAIN fs

=============================================================================
